---------------------------- MODULE Spec2Model ----------------------------
(***************************************************************************)
(* Degraded-battery OCV service: the forward model                         *)
(* (calculate_degraded_ocv_raw), the pristine cell it works on, and the     *)
(* inverse estimator (estimate_diagnostics_multistart) with its endpoint.   *)
(*                                                                          *)
(* Reals are fixed-point integers: the real r is the integer r * One.       *)
(* Products and quotients round down to the lattice (Mul, Div); sums and    *)
(* differences are exact.  A non-finite float is the value NaN.             *)
(***************************************************************************)
EXTENDS Integers, Sequences, FiniteSets, TLC

(* The fixed-point image of the literal 1.0. *)
One == 12

(* The float np.nan, outside every finite range used. *)
NaN == 99999

(* The float inf, outside every finite range used. *)
Inf == 99998

(* The object None; every other object has valid = TRUE. *)
None == [valid |-> FALSE]

(* The outcome of a call that raised exc instead of returning. *)
Raised(exc) == [valid |-> FALSE, raised |-> exc]

isfinite(a) == a # NaN /\ a # Inf

Abs(a) == IF a < 0 THEN -a ELSE a

Sign(a) == IF a > 0 THEN 1 ELSE IF a < 0 THEN -1 ELSE 0

Mul(a, b) == (a * b) \div One

Div(a, b) == (a * One) \div b

(* Float arithmetic on possibly non-finite operands. *)
FAdd(a, b) == IF isfinite(a) /\ isfinite(b) THEN a + b ELSE NaN

FSub(a, b) == IF isfinite(a) /\ isfinite(b) THEN a - b ELSE NaN

FMul(a, b) == IF isfinite(a) /\ isfinite(b) THEN Mul(a, b) ELSE NaN

(* numpy division: x / 0 is non-finite, not an error. *)
FDiv(a, b) == IF isfinite(a) /\ isfinite(b) /\ b # 0 THEN Div(a, b) ELSE NaN

(* Float comparison: FALSE on a NaN operand. *)
FLe(a, b) == isfinite(a) /\ isfinite(b) /\ a <= b

Range(s) == {s[i] : i \in DOMAIN s}

(* The element of a one-element set: {e(v) : v \in {x}} evaluates x once. *)
TheOne(S) == CHOOSE x \in S : TRUE

Last(s) == s[Len(s)]

(***************************************************************************)
(* Bounds of the model.                                                     *)
(***************************************************************************)
(* Largest grid size / num_points. *)
MaxPoints == 3

(***************************************************************************)
(* Half-cell tables (ocv_pristine.py).                                      *)
(***************************************************************************)
(* The CSV rows of the half-cell files, as <<SOL, OCV>> pairs; NaN marks a   *)
(* cell genfromtxt could not read as a number.                               *)
CsvRows ==
    [ nmcA |-> << <<8, 46>>, <<0, 36>>, <<4, 40>>, <<4, 42>>, <<12, 54>>, <<NaN, 7>> >>,
      graA |-> << <<0, 1>>, <<3, 2>>, <<12, 9>> >>,
      nmcB |-> << <<0, 30>>, <<12, 54>> >>,
      graB |-> << <<0, 0>>, <<6, 3>>, <<6, NaN>>, <<12, 12>> >> ]

(* The rows with both columns finite, in file order (lines 65-67). *)
RECURSIVE FiniteRows(_)
FiniteRows(rows) ==
    IF rows = << >> THEN << >>
    ELSE IF isfinite(Head(rows)[1]) /\ isfinite(Head(rows)[2])
         THEN <<Head(rows)>> \o FiniteRows(Tail(rows))
         ELSE FiniteRows(Tail(rows))

(* np.unique of the SOL column: the distinct values, ascending (line 74). *)
RECURSIVE SortedSeq(_)
SortedSeq(S) ==
    IF S = {} THEN << >>
    ELSE LET m == CHOOSE x \in S : \A y \in S : x <= y
         IN  <<m>> \o SortedSeq(S \ {m})

RECURSIVE SumSeq(_)
SumSeq(s) == IF s = << >> THEN 0 ELSE Head(s) + SumSeq(Tail(s))

SelectOcv(rows, v) ==
    LET RECURSIVE Pick(_)
        Pick(r) == IF r = << >> THEN << >>
                   ELSE IF Head(r)[1] = v THEN <<Head(r)[2]>> \o Pick(Tail(r))
                        ELSE Pick(Tail(r))
    IN  Pick(rows)

LoadHalfCellCsvKeepFirst(rows) ==
    LET fin == FiniteRows(rows)
        sol_unique == SortedSeq({fin[i][1] : i \in DOMAIN fin})
        ocv_unique == [k \in DOMAIN sol_unique |-> SelectOcv(fin, sol_unique[k])[1]]
    IN  IF Len(fin) = 0 \/ Len(sol_unique) < 2 THEN Raised("ValueError")
        ELSE [valid |-> TRUE, sol |-> sol_unique, ocv |-> ocv_unique]

(* _load_half_cell_csv: (sol_unique, ocv_unique), or ValueError raised. *)
LoadHalfCellCsv(rows) ==
    LET fin == FiniteRows(rows)
        sol_unique == SortedSeq({fin[i][1] : i \in DOMAIN fin})
        ocv_unique == [k \in DOMAIN sol_unique |->
                         LET grp == SelectOcv(fin, sol_unique[k])
                         IN  IF Len(sol_unique) # Len(fin)
                             THEN SumSeq(grp) \div Len(grp)
                             ELSE grp[1]]
    IN  IF Len(fin) = 0 \/ Len(sol_unique) < 2 THEN Raised("ValueError")
        ELSE [valid |-> TRUE, sol |-> sol_unique, ocv |-> ocv_unique]

(***************************************************************************)
(* PchipInterpolator(sol, ocv, extrapolate=True): the shape-preserving      *)
(* cubic Hermite interpolant, its end pieces continued outside the table.   *)
(***************************************************************************)
(* Secant slope of interval k. *)
PchipSlope(sol, ocv, k) == Div(ocv[k + 1] - ocv[k], sol[k + 1] - sol[k])

(* The three-point end derivative. *)
PchipEdge(h0, h1, m0, m1) ==
    LET d == ((2 * h0 + h1) * m0 - h0 * m1) \div (h0 + h1)
    IN  IF Sign(d) # Sign(m0) THEN 0
        ELSE IF Sign(m0) # Sign(m1) /\ Abs(d) > 3 * Abs(m0) THEN 3 * m0
        ELSE d

(* Derivative at node k: weighted harmonic mean of the adjacent slopes. *)
PchipDeriv(sol, ocv, k) ==
    LET n == Len(sol)
        h(j) == sol[j + 1] - sol[j]
        m(j) == PchipSlope(sol, ocv, j)
    IN  IF n = 2 THEN m(1)
        ELSE IF k = 1 THEN PchipEdge(h(1), h(2), m(1), m(2))
        ELSE IF k = n THEN PchipEdge(h(n - 1), h(n - 2), m(n - 1), m(n - 2))
        ELSE LET m0 == m(k - 1)
                 m1 == m(k)
                 w1 == 2 * h(k) + h(k - 1)
                 w2 == h(k) + 2 * h(k - 1)
             IN  IF Sign(m0) # Sign(m1) \/ m0 = 0 \/ m1 = 0 THEN 0
                 ELSE ((w1 + w2) * m0 * m1) \div (w1 * m1 + w2 * m0)

(* The interval whose cubic evaluates q: the one holding q, or an end one. *)
PchipInterval(sol, q) ==
    LET n == Len(sol)
        below == {j \in 1..(n - 1) : sol[j] <= q}
    IN  IF below = {} THEN 1 ELSE CHOOSE j \in below : \A i \in below : i <= j

(* The interpolant at q. *)
PchipEval(sol, ocv, q) ==
    LET k == PchipInterval(sol, q)
        h == sol[k + 1] - sol[k]
        s == q - sol[k]
        d0 == PchipDeriv(sol, ocv, k)
        d1 == PchipDeriv(sol, ocv, k + 1)
        a == 2 * s * s * s - 3 * s * s * h + h * h * h
        b == 3 * s * s * h - 2 * s * s * s
        c == s * s * s - 2 * s * s * h + s * h * h
        d == s * s * s - s * s * h
    IN  (ocv[k] * a + ocv[k + 1] * b + (h * d0 * c + h * d1 * d) \div One)
            \div (h * h * h)

(* HalfCellCurve.eval_ocv: NaN outside the table when extrapolation is off. *)
eval_ocv(curve, q, allow_extrapolation) ==
    LET y == IF isfinite(q) THEN PchipEval(curve.sol, curve.ocv, q) ELSE NaN
    IN  IF allow_extrapolation THEN y
        ELSE IF q >= curve.sol_min /\ q <= curve.sol_max THEN y ELSE NaN

(* The HalfCellCurve of a loaded table (lines 102-118). *)
HalfCellCurve(t) ==
    [sol |-> t.sol, ocv |-> t.ocv, sol_min |-> t.sol[1], sol_max |-> Last(t.sol)]

(***************************************************************************)
(* Pristine profiles and cells.                                             *)
(***************************************************************************)
(* The catalog: each profile's files and four endpoint scalars. *)
Catalog ==
    [ A |-> [nmc_csv |-> "nmcA", gra_csv |-> "graA",
             sol_nmc_eoc |-> 11, sol_nmc_eod |-> 2, sol_gra_eoc |-> 1, sol_gra_eod |-> 10],
      B |-> [nmc_csv |-> "nmcB", gra_csv |-> "graB",
             sol_nmc_eoc |-> 12, sol_nmc_eod |-> 0, sol_gra_eoc |-> 0, sol_gra_eod |-> 12] ]

ProfileIds == DOMAIN Catalog

(* np.linspace(a, b, n): n samples, the last one set to b when n > 1. *)
linspace(a, b, n) ==
    [i \in 1..n |-> IF n > 1 /\ i = n THEN b
                    ELSE IF n = 1 THEN a
                    ELSE IF isfinite(a) /\ isfinite(b)
                         THEN a + ((i - 1) * (b - a)) \div (n - 1)
                         ELSE NaN]

sol_nmc_from_x(p, x) == FAdd(p.sol_nmc_eoc, FMul(x, p.sol_nmc_eod - p.sol_nmc_eoc))

sol_gra_from_x(p, x) == FAdd(p.sol_gra_eoc, FMul(x, p.sol_gra_eod - p.sol_gra_eoc))

ocv_nmc_from_x(p, x, allow_extrapolation) ==
    eval_ocv(p.nmc, sol_nmc_from_x(p, x), allow_extrapolation)

ocv_gra_from_x(p, x, allow_extrapolation) ==
    eval_ocv(p.gra, sol_gra_from_x(p, x), allow_extrapolation)

(* v_max = ocv_cell_grid[0] (line 129). *)
VMax(ocv_cell_grid) == ocv_cell_grid[1]

(* v_min = ocv_cell_grid[-1] (line 130). *)
VMinFirst(ocv_cell_grid) == ocv_cell_grid[1]

VMin(ocv_cell_grid) == ocv_cell_grid[Len(ocv_cell_grid)]

(* build_pristine_cell_from_csv (num_points >= 1: an empty grid has no        *)
(* ocv_cell_grid[0] and the build raises).                                   *)
build_pristine_cell_from_csv(profile_id, num_points) ==
    LET prof == Catalog[profile_id]
        base == [profile_id |-> profile_id,
                 nmc |-> HalfCellCurve(LoadHalfCellCsv(CsvRows[prof.nmc_csv])),
                 gra |-> HalfCellCurve(LoadHalfCellCsv(CsvRows[prof.gra_csv])),
                 sol_nmc_eoc |-> prof.sol_nmc_eoc, sol_nmc_eod |-> prof.sol_nmc_eod,
                 sol_gra_eoc |-> prof.sol_gra_eoc, sol_gra_eod |-> prof.sol_gra_eod]
        x_grid == linspace(0, One, num_points)
        ocv_nmc_grid == [i \in 1..num_points |-> ocv_nmc_from_x(base, x_grid[i], TRUE)]
        ocv_gra_grid == [i \in 1..num_points |-> ocv_gra_from_x(base, x_grid[i], TRUE)]
        ocv_cell_grid == [i \in 1..num_points |-> ocv_nmc_grid[i] - ocv_gra_grid[i]]
    IN  [profile_id |-> profile_id, nmc |-> base.nmc, gra |-> base.gra,
         sol_nmc_eoc |-> prof.sol_nmc_eoc, sol_nmc_eod |-> prof.sol_nmc_eod,
         sol_gra_eoc |-> prof.sol_gra_eoc, sol_gra_eod |-> prof.sol_gra_eod,
         x_grid |-> x_grid, ocv_nmc |-> ocv_nmc_grid, ocv_gra |-> ocv_gra_grid,
         ocv_cell |-> ocv_cell_grid,
         v_max |-> VMax(ocv_cell_grid), v_min |-> VMin(ocv_cell_grid)]

(***************************************************************************)
(* The forward model (ocv_degraded.py, calculate_degraded_ocv_raw).          *)
(***************************************************************************)
(* Largest |dx| the root finder's iterates reach. *)
MaxDelta == 12

DeltaRange == (0 - MaxDelta)..MaxDelta

(* equations(vars_): the residuals <<eq_vmax, eq_vmin>> at <<dx_eoc, dx_eod>>. *)
eq_vmax(p, lli, lam_pe, lam_ne, dx_eoc) ==
    p.v_max - ocv_nmc_from_x(p, Div(dx_eoc, One - lam_pe), TRUE)
            + ocv_gra_from_x(p, Div(dx_eoc + lli - lam_ne, One - lam_ne), TRUE)

eq_vmin(p, lli, lam_pe, lam_ne, dx_eod) ==
    p.v_min - ocv_nmc_from_x(p, Div(dx_eod + One - lli, One - lam_pe), TRUE)
            + ocv_gra_from_x(p, Div(dx_eod + One - lam_ne, One - lam_ne), TRUE)

equations(p, lli, lam_pe, lam_ne, v) ==
    <<eq_vmax(p, lli, lam_pe, lam_ne, v[1]), eq_vmin(p, lli, lam_pe, lam_ne, v[2])>>

(* How MINPACK's hybrd ends a solve that does not converge: with a status    *)
(* 2 (maxfev reached), 3 (xtol too small), 4 or 5 (no progress) and its last *)
(* iterate, finite or not; or the call raises.                               *)
FsolveFailModes ==
    [kind : {"status"}, ier : 2..5, finite : BOOLEAN] \cup {[kind |-> "raise"]}

(* The iterate of least |residual| for one equation, the nearest to the      *)
(* start among equals; res holds <<dx, |residual at dx|>> for every dx.      *)
BestIterate(res) ==
    LET best == CHOOSE a \in res : \A b \in res :
                    \/ a[2] < b[2]
                    \/ a[2] = b[2] /\ Abs(a[1]) < Abs(b[1])
                    \/ a[2] = b[2] /\ Abs(a[1]) = Abs(b[1]) /\ a[1] >= b[1]
    IN  best[1]

(* fsolve(equations, x0, full_output=True, xtol=1e-10, maxfev=2000):         *)
(* [kind, sol, ier].  A start that is a root is returned as it is, ier = 1;  *)
(* otherwise the root nearest the start, ier = 1; with no root the solve     *)
(* ends as mode says.  equations divides Python floats: a zero divisor       *)
(* raises ZeroDivisionError out of fsolve.                                   *)
fsolve(p, lli, lam_pe, lam_ne, x0, mode) ==
    LET f1(d) == eq_vmax(p, lli, lam_pe, lam_ne, d)
        f2(d) == eq_vmin(p, lli, lam_pe, lam_ne, d)
        b1 == BestIterate({<<d, Abs(f1(d))>> : d \in DeltaRange})
        b2 == BestIterate({<<d, Abs(f2(d))>> : d \in DeltaRange})
    IN  IF One - lam_pe = 0 \/ One - lam_ne = 0
        THEN [kind |-> "raise", sol |-> <<NaN, NaN>>, ier |-> 0]
        ELSE IF equations(p, lli, lam_pe, lam_ne, x0) = <<0, 0>>
        THEN [kind |-> "status", sol |-> x0, ier |-> 1]
        ELSE IF f1(b1) = 0 /\ f2(b2) = 0
        THEN [kind |-> "status", sol |-> <<b1, b2>>, ier |-> 1]
        ELSE IF mode.kind = "raise"
        THEN [kind |-> "raise", sol |-> <<NaN, NaN>>, ier |-> 0]
        ELSE [kind |-> "status",
              sol |-> IF mode.finite THEN <<b1, b2>> ELSE <<NaN, NaN>>,
              ier |-> mode.ier]

(* The test of fsolve's status (line 76): TRUE when the result is given up. *)
IerRejected(ier) == ier <= 0

(* The window test (line 89): TRUE when the result is given up. *)
WindowRejectedStrict(x_cell_eoc, x_cell_eod) ==
    ~isfinite(x_cell_eoc) \/ ~isfinite(x_cell_eod)
        \/ (FLe(x_cell_eod, x_cell_eoc) /\ x_cell_eod # x_cell_eoc)

WindowRejected(x_cell_eoc, x_cell_eod) ==
    ~isfinite(x_cell_eoc) \/ ~isfinite(x_cell_eod) \/ FLe(x_cell_eod, x_cell_eoc)

(* The DegradedOcvRaw built from a solution (lines 79-118), or None. *)
DegradedFromSol(p, lli, lam_pe, lam_ne, num_points, sol) ==
    LET delta_x_eoc == sol[1]
        delta_x_eod == sol[2]
        x_pe_eoc == FDiv(delta_x_eoc, One - lam_pe)
        x_pe_eod == FDiv(FSub(FAdd(delta_x_eod, One), lli), One - lam_pe)
        x_ne_eoc == FDiv(FSub(FAdd(delta_x_eoc, lli), lam_ne), One - lam_ne)
        x_ne_eod == FDiv(FSub(FAdd(delta_x_eod, One), lam_ne), One - lam_ne)
        x_cell_eoc == delta_x_eoc
        x_cell_eod == FAdd(One - lli, delta_x_eod)
        capacity_norm == linspace(x_cell_eoc, x_cell_eod, num_points)
        frac == [i \in 1..num_points |->
                    FDiv(FSub(capacity_norm[i], x_cell_eoc), FSub(x_cell_eod, x_cell_eoc))]
        x_pe == [i \in 1..num_points |->
                    FAdd(x_pe_eoc, FMul(frac[i], FSub(x_pe_eod, x_pe_eoc)))]
        x_ne == [i \in 1..num_points |->
                    FAdd(x_ne_eoc, FMul(frac[i], FSub(x_ne_eod, x_ne_eoc)))]
    IN  IF WindowRejected(x_cell_eoc, x_cell_eod) THEN None
        ELSE [valid |-> TRUE, lli |-> lli, lam_pe |-> lam_pe, lam_ne |-> lam_ne,
              delta_x_eoc |-> delta_x_eoc, delta_x_eod |-> delta_x_eod,
              x_cell_eoc |-> x_cell_eoc, x_cell_eod |-> x_cell_eod,
              cell_capacity |-> FSub(x_cell_eod, x_cell_eoc),
              x_pe_eoc |-> x_pe_eoc, x_pe_eod |-> x_pe_eod,
              x_ne_eoc |-> x_ne_eoc, x_ne_eod |-> x_ne_eod,
              capacity_norm |-> capacity_norm,
              ocv_cell |-> [i \in 1..num_points |->
                              FSub(ocv_nmc_from_x(p, x_pe[i], TRUE),
                                   ocv_gra_from_x(p, x_ne[i], TRUE))]]

(* The admissibility test of theta (line 42): TRUE when solve gives up. *)
ThetaRejectedStrict(lam_pe, lam_ne) == (One - lam_pe) < 0 \/ (One - lam_ne) < 0

ThetaRejected(lam_pe, lam_ne) == (One - lam_pe) <= 0 \/ (One - lam_ne) <= 0

(* One run of calculate_degraded_ocv_raw: what it returns, whether it called *)
(* the root finder and what the root finder answered.                        *)
SolveRun(p, lli, lam_pe, lam_ne, num_points, mode) ==
    IF ThetaRejected(lam_pe, lam_ne)
    THEN [ret |-> None, fsolve_called |-> FALSE,
          fs |-> [kind |-> "none", sol |-> <<NaN, NaN>>, ier |-> 0]]
    ELSE TheOne({ [ret |-> IF fs.kind = "raise" THEN None
                           ELSE IF IerRejected(fs.ier) THEN None
                           ELSE DegradedFromSol(p, lli, lam_pe, lam_ne, num_points, fs.sol),
                   fsolve_called |-> TRUE, fs |-> fs]
                  : fs \in {fsolve(p, lli, lam_pe, lam_ne, <<0, 0>>, mode)} })

calculate_degraded_ocv_raw(p, lli, lam_pe, lam_ne, num_points, mode) ==
    SolveRun(p, lli, lam_pe, lam_ne, num_points, mode).ret

(***************************************************************************)
(* The plot axis and the curves mapped onto it (ocv_degraded.py 121-210).   *)
(***************************************************************************)
MinOf(S) == CHOOSE m \in S : \A v \in S : m <= v

MaxOf(S) == CHOOSE m \in S : \A v \in S : m >= v

(* 1e-9 (line 131), the floor of the span: the smallest lattice step. *)
SpanFloor == 1

(* pad_amt = 0.02 * span (line 132). The lattice has no step as small as     *)
(* 0.02, so the fraction is one step per unit of span, rounded up: a pad of  *)
(* a positive span is positive, as in the code.                             *)
PadAmount(span) == (span + One - 1) \div One

(* build_plot_axis(pristine_x, degraded, pad=...). *)
build_plot_axis(pristine_x, degraded, pad) ==
    LET x_min0 == MinOf(Range(pristine_x))
        x_max0 == MaxOf(Range(pristine_x))
        x_min == IF degraded # None THEN MinOf({x_min0, degraded.x_cell_eoc}) ELSE x_min0
        x_max == IF degraded # None THEN MaxOf({x_max0, degraded.x_cell_eod}) ELSE x_max0
        span == MaxOf({SpanFloor, x_max - x_min})
        pad_amt == PadAmount(span)
    IN  IF ~pad THEN linspace(x_min, x_max, Len(pristine_x))
        ELSE linspace(x_min - pad_amt, x_max + pad_amt, Len(pristine_x))

(* np.interp(q, xp, fp): linear between the samples, the end values outside. *)
np_interp(q, xp, fp) ==
    LET n == Len(xp)
        j == MaxOf({k \in 1..n : xp[k] <= q})
    IN  IF ~isfinite(q) THEN NaN
        ELSE IF q < xp[1] THEN fp[1]
        ELSE IF q > xp[n] THEN fp[n]
        ELSE IF n = 1 THEN fp[1]
        ELSE IF j = n THEN fp[n]
        ELSE IF xp[j] = q THEN fp[j]
        ELSE FAdd(FMul(FDiv(FSub(fp[j + 1], fp[j]), xp[j + 1] - xp[j]), q - xp[j]), fp[j])

(* out[mask] = values[mask] on an array filled with NaN (np.full_like). *)
Masked(values, mask) == [i \in DOMAIN mask |-> IF mask[i] THEN values[i] ELSE NaN]

(* mask_pristine (line 146): the plot points inside [0, 1]. *)
MaskPristine(x_plot) ==
    [i \in DOMAIN x_plot |-> FLe(0, x_plot[i]) /\ FLe(x_plot[i], One)]

(* mask_deg_cell (line 165): the plot points inside the degraded window. *)
MaskDegCell(degraded, x_plot) ==
    [i \in DOMAIN x_plot |->
        FLe(degraded.x_cell_eoc, x_plot[i]) /\ FLe(x_plot[i], degraded.x_cell_eod)]

(* mask_pe_domain, mask_ne_domain (lines 181-182). *)
MaskDomainAlone(curve, sol, mask_deg_cell) ==
    [i \in DOMAIN sol |-> FLe(curve.sol_min, sol[i]) /\ FLe(sol[i], curve.sol_max)]

MaskDomain(curve, sol, mask_deg_cell) ==
    [i \in DOMAIN sol |->
        FLe(curve.sol_min, sol[i]) /\ FLe(sol[i], curve.sol_max) /\ mask_deg_cell[i]]

(* The degraded section of map_curves_to_plot_x (lines 160-208); sol_pe and  *)
(* sol_ne are the function's locals of lines 175-176, kept beside the keys   *)
(* it returns.                                                               *)
MapDegraded(pristine, degraded, x_plot) ==
    LET I == DOMAIN x_plot
        mask_deg_cell == MaskDegCell(degraded, x_plot)
        ocv_cell_all == [i \in I |->
                            np_interp(x_plot[i], degraded.capacity_norm, degraded.ocv_cell)]
        frac == [i \in I |-> FDiv(FSub(x_plot[i], degraded.x_cell_eoc),
                                  FSub(degraded.x_cell_eod, degraded.x_cell_eoc))]
        x_pe == [i \in I |-> FAdd(degraded.x_pe_eoc,
                                  FMul(frac[i], FSub(degraded.x_pe_eod, degraded.x_pe_eoc)))]
        x_ne == [i \in I |-> FAdd(degraded.x_ne_eoc,
                                  FMul(frac[i], FSub(degraded.x_ne_eod, degraded.x_ne_eoc)))]
        sol_pe == [i \in I |-> sol_nmc_from_x(pristine, x_pe[i])]
        sol_ne == [i \in I |-> sol_gra_from_x(pristine, x_ne[i])]
        ocv_pe_all == [i \in I |-> eval_ocv(pristine.nmc, sol_pe[i], TRUE)]
        ocv_ne_all == [i \in I |-> eval_ocv(pristine.gra, sol_ne[i], TRUE)]
        mask_pe_domain == MaskDomain(pristine.nmc, sol_pe, mask_deg_cell)
        mask_ne_domain == MaskDomain(pristine.gra, sol_ne, mask_deg_cell)
    IN  [valid |-> TRUE,
         theta |-> [LLI |-> degraded.lli, LAM_PE |-> degraded.lam_pe,
                    LAM_NE |-> degraded.lam_ne],
         results |-> [delta_x_eoc |-> degraded.delta_x_eoc,
                      delta_x_eod |-> degraded.delta_x_eod,
                      x_cell_eoc |-> degraded.x_cell_eoc,
                      x_cell_eod |-> degraded.x_cell_eod,
                      cell_capacity |-> degraded.cell_capacity,
                      endpoints |-> [x_pe_eoc |-> degraded.x_pe_eoc,
                                     x_pe_eod |-> degraded.x_pe_eod,
                                     x_ne_eoc |-> degraded.x_ne_eoc,
                                     x_ne_eod |-> degraded.x_ne_eod]],
         sol_pe |-> sol_pe, sol_ne |-> sol_ne,
         cell |-> [ocv |-> Masked(ocv_cell_all, mask_deg_cell), mask_valid |-> mask_deg_cell],
         pe |-> [ocv |-> Masked(ocv_pe_all, mask_pe_domain), mask_valid |-> mask_pe_domain],
         ne |-> [ocv |-> Masked(ocv_ne_all, mask_ne_domain), mask_valid |-> mask_ne_domain]]

(* map_curves_to_plot_x(pristine, degraded, x_plot). *)
map_curves_to_plot_x(pristine, degraded, x_plot) ==
    LET I == DOMAIN x_plot
        mask_pristine == MaskPristine(x_plot)
        on_grid(fp) == Masked([i \in I |-> np_interp(x_plot[i], pristine.x_grid, fp)],
                              mask_pristine)
    IN  [pristine |-> [cell |-> [ocv |-> on_grid(pristine.ocv_cell),
                                 mask_valid |-> mask_pristine],
                       pe |-> [ocv |-> on_grid(pristine.ocv_nmc),
                               mask_valid |-> mask_pristine],
                       ne |-> [ocv |-> on_grid(pristine.ocv_gra),
                               mask_valid |-> mask_pristine]],
         degraded |-> IF degraded = None THEN None
                      ELSE MapDegraded(pristine, degraded, x_plot)]

(***************************************************************************)
(* The forward endpoint's response (main.py 60-134).                        *)
(***************************************************************************)
(* _np_to_list: every value that is not finite becomes NaN. *)
np_to_list(arr) == [i \in DOMAIN arr |-> IF isfinite(arr[i]) THEN arr[i] ELSE NaN]

(* bundle(curve) of ocv_curves. *)
bundle(x_plot, curve) ==
    [x |-> np_to_list(x_plot), ocv |-> np_to_list(curve.ocv), mask_valid |-> curve.mask_valid]

(* degraded_out (lines 112-122). *)
DegradedOutKeepsCell(x_plot, degraded_section) ==
    IF ~degraded_section.valid
    THEN [valid |-> FALSE,
          cell |-> bundle(x_plot, [ocv |-> [i \in DOMAIN x_plot |-> NaN],
                                   mask_valid |-> [i \in DOMAIN x_plot |-> FALSE]])]
    ELSE [valid |-> TRUE,
          theta |-> degraded_section.theta,
          results |-> degraded_section.results,
          cell |-> bundle(x_plot, degraded_section.cell),
          pe |-> bundle(x_plot, degraded_section.pe),
          ne |-> bundle(x_plot, degraded_section.ne)]

DegradedOut(x_plot, degraded_section) ==
    IF ~degraded_section.valid THEN [valid |-> FALSE]
    ELSE [valid |-> TRUE,
          theta |-> degraded_section.theta,
          results |-> degraded_section.results,
          cell |-> bundle(x_plot, degraded_section.cell),
          pe |-> bundle(x_plot, degraded_section.pe),
          ne |-> bundle(x_plot, degraded_section.ne)]

(* The CurvesResponse that ocv_curves returns (lines 124-134). *)
CurvesResponse(pristine_id, lli, lam_pe, lam_ne, x_plot, mapped) ==
    [status |-> 200,
     pristine_id |-> pristine_id,
     theta_deg |-> [LLI |-> lli, LAM_PE |-> lam_pe, LAM_NE |-> lam_ne],
     pristine |-> [cell |-> bundle(x_plot, mapped.pristine.cell),
                   pe |-> bundle(x_plot, mapped.pristine.pe),
                   ne |-> bundle(x_plot, mapped.pristine.ne)],
     degraded |-> DegradedOut(x_plot, mapped.degraded)]

(***************************************************************************)
(* Measured series (ocv_degraded.py 213-261).                               *)
(***************************************************************************)
MeasuredOcv(capacity, ocv) == [valid |-> TRUE, capacity |-> capacity, ocv |-> ocv]

(* Largest series given to _gradient_mask on its own. *)
MaxLen == 3

(* np.argsort: the positions of a in ascending order of value, equal values  *)
(* in their order of appearance.                                             *)
RECURSIVE ArgsortFrom(_, _)
ArgsortFrom(a, I) ==
    IF I = {} THEN << >>
    ELSE LET k == CHOOSE i \in I :
                      \A j \in I : a[i] < a[j] \/ (a[i] = a[j] /\ i <= j)
         IN  <<k>> \o ArgsortFrom(a, I \ {k})

argsort(a) == ArgsortFrom(a, DOMAIN a)

(* load_measured_ocv_from_mat: raw is the file's content, [has_data,         *)
(* capacity, ocv]; the cleaned series, or the ValueError raised.             *)
load_measured_ocv_from_mat(raw) ==
    LET keep  == SortedSeq({i \in DOMAIN raw.capacity :
                              isfinite(raw.capacity[i]) /\ isfinite(raw.ocv[i])})
        cap_a == [k \in DOMAIN keep |-> raw.capacity[keep[k]]]
        ocv_a == [k \in DOMAIN keep |-> raw.ocv[keep[k]]]
        idx   == argsort(cap_a)
    IN  IF ~raw.has_data THEN Raised("ValueError")
        ELSE IF Len(raw.capacity) # Len(raw.ocv) THEN Raised("ValueError")
        ELSE IF Len(cap_a) < 3 THEN Raised("ValueError")
        ELSE MeasuredOcv([k \in DOMAIN idx |-> cap_a[idx[k]]],
                         [k \in DOMAIN idx |-> ocv_a[idx[k]]])

(* np.abs(np.diff(a)). *)
AbsDiff(a) ==
    [i \in 1..(Len(a) - 1) |->
        IF isfinite(a[i]) /\ isfinite(a[i + 1]) THEN Abs(a[i + 1] - a[i]) ELSE NaN]

(* 1 / 1e-12, the reciprocal of the floor under the gradient's denominator.  *)
(* The floor is below the lattice, so only a denominator of exactly 0 meets  *)
(* it; the reciprocal is scaled down to 10^6 to fit the integers, and stays  *)
(* above every gradient_limit of the model.                                  *)
EpsInv == 1000000

(* ocv_diff / np.maximum(1e-12, soc_diff), both operands non-negative. *)
Grad(ocv_diff, soc_diff) ==
    IF ~isfinite(ocv_diff) \/ ~isfinite(soc_diff) THEN NaN
    ELSE IF soc_diff > 0 THEN Div(ocv_diff, soc_diff)
    ELSE ocv_diff * EpsInv

(* grad < float(gradient_limit): FALSE on a NaN gradient. *)
IsFlatNonStrict(grad, gradient_limit) == isfinite(grad) /\ grad <= gradient_limit

IsFlat(grad, gradient_limit) == isfinite(grad) /\ grad < gradient_limit

(* _gradient_mask: [valid, mask], or the ValueError numpy raises when the    *)
(* two difference arrays cannot be broadcast together.                       *)
gradient_mask(capacity, ocv, gradient_limit) ==
    LET soc_diff == AbsDiff([i \in DOMAIN capacity |->
                               IF isfinite(capacity[i]) THEN capacity[i] * 100 ELSE NaN])
        ocv_diff == AbsDiff(ocv)
        a == Len(soc_diff)
        b == Len(ocv_diff)
        n == IF a = b THEN a ELSE IF a = 1 THEN b ELSE IF b = 1 THEN a ELSE -1
        at(s, i) == IF Len(s) = 1 THEN s[1] ELSE s[i]
        grad == [i \in 1..n |-> Grad(at(ocv_diff, i), at(soc_diff, i))]
    IN  IF n < 0 THEN Raised("ValueError")
        ELSE [valid |-> TRUE,
              mask |-> [i \in 1..(n + 1) |-> i <= n /\ IsFlat(grad[i], gradient_limit)]]

(* np.any(mask_flat). *)
AnyFlatAlways(mask) == TRUE

AnyFlat(mask) == \E i \in DOMAIN mask : mask[i]

(***************************************************************************)
(* interp1d(x, y, kind='linear', fill_value='extrapolate',                  *)
(* assume_sorted=True) evaluated at q: the line through the two nodes that  *)
(* np.searchsorted and clip(1, len - 1) select.                             *)
(***************************************************************************)
interp1d(x, y, q) ==
    LET n   == Len(x)
        idx == IF isfinite(q) THEN Cardinality({j \in 1..n : x[j] < q}) ELSE n
        hi0 == IF n - 1 < 1 THEN n - 1
               ELSE IF idx < 1 THEN 1 ELSE IF idx > n - 1 THEN n - 1 ELSE idx
        lo  == IF hi0 = 0 THEN n ELSE hi0
        hi  == hi0 + 1
        slope == FDiv(FSub(y[hi], y[lo]), FSub(x[hi], x[lo]))
    IN  FAdd(FMul(slope, FSub(q, x[lo])), y[lo])

(***************************************************************************)
(* The inverse estimator (estimate_diagnostics_multistart, lines 274-380).  *)
(***************************************************************************)
(* penalty = 1e6 (line 297). *)
Penalty == 1000000 * One

(* fun < best_rmse, best_rmse possibly inf (line 351). *)
FLt(a, b) == isfinite(a) /\ (b = Inf \/ (isfinite(b) /\ a < b))

(* Largest r with r * r <= n, for 0 <= n <= hi * hi: np.sqrt on the lattice. *)
Isqrt(n, hi) == CHOOSE r \in 0..hi : r * r <= n /\ n < (r + 1) * (r + 1)

(* float(np.sqrt(np.mean(err * err))) over the flagged points; NaN when one  *)
(* error is not finite or no point is flagged.                               *)
Rmse(err, idx) ==
    IF idx = {} \/ \E k \in idx : ~isfinite(err[k]) THEN NaN
    ELSE LET ks == SortedSeq(idx)
             hi == CHOOSE m \in {Abs(err[k]) : k \in idx} :
                       \A k \in idx : Abs(err[k]) <= m
         IN  Isqrt(SumSeq([j \in DOMAIN ks |-> err[ks[j]] * err[ks[j]]]) \div Len(ks), hi)

(* objective(theta) (lines 299-328), degraded being what                     *)
(* calculate_degraded_ocv_raw returns for theta: [raised, value].  Boolean   *)
(* indexing with a mask of another length than the array raises IndexError.  *)
objective(degraded, cap, ocv, mask_flat) ==
        IF ~degraded.valid THEN [raised |-> FALSE, value |-> Penalty]
        ELSE IF ~isfinite(degraded.cell_capacity) \/ degraded.cell_capacity <= 0
        THEN [raised |-> FALSE, value |-> Penalty]
        ELSE IF Len(degraded.capacity_norm) < 2
        THEN [raised |-> FALSE, value |-> Penalty]
        ELSE LET pred_capacity == [i \in DOMAIN degraded.capacity_norm |->
                                     FSub(degraded.capacity_norm[i], degraded.x_cell_eoc)]
                 pred_at_meas == [k \in DOMAIN cap |->
                                     interp1d(pred_capacity, degraded.ocv_cell, cap[k])]
                 idx  == {k \in DOMAIN mask_flat : mask_flat[k]}
                 rmse == Rmse([k \in idx |-> FSub(pred_at_meas[k], ocv[k])], idx)
             IN  IF Len(mask_flat) # Len(cap) \/ Len(mask_flat) # Len(ocv)
                 THEN [raised |-> TRUE, value |-> NaN]
                 ELSE IF ~isfinite(rmse) THEN [raised |-> FALSE, value |-> Penalty]
                 ELSE [raised |-> FALSE, value |-> rmse]

(* The lattice of the box bounds = [(0, 1)] * 3 and of the starts            *)
(* rng.random((num_starts, 3)), which lie in [0, 1).                         *)
ThetaStep == One \div 2

BoxValues == {k * ThetaStep : k \in 0..(One \div ThetaStep)}

Box == BoxValues \X BoxValues \X BoxValues

StartPoints == {x \in Box : \A c \in 1..3 : x[c] < One}

(* calculate_degraded_ocv_raw over the box: a function of its arguments,     *)
(* computed once for the closure and for the recomputation at best_x.        *)
DegradedTable(p, num_points, mode) ==
    [theta \in Box |->
        calculate_degraded_ocv_raw(p, theta[1], theta[2], theta[3], num_points, mode)]

(* The objective over the box: what the closure returns at each theta. *)
ObjectiveTable(degraded, cap, ocv, mask_flat) ==
    [theta \in Box |-> objective(degraded[theta], cap, ocv, mask_flat)]

(* The lattice points one step from x along one coordinate. *)
Neighbours(x) ==
    {y \in Box : \E c \in 1..3 :
        /\ Abs(y[c] - x[c]) = ThetaStep
        /\ \A d \in 1..3 : d # c => y[d] = x[d]}

(* A fixed total order of the box, to choose among equal neighbours. *)
LexLe(x, y) ==
    \/ x[1] < y[1]
    \/ x[1] = y[1] /\ x[2] < y[2]
    \/ x[1] = y[1] /\ x[2] = y[2] /\ x[3] <= y[3]

(* minimize(objective, x0, bounds, method='SLSQP'): a bounded local descent  *)
(* from x0, ending where no neighbour is lower.  maxiter >= 10 exceeds every *)
(* descent of the box.  An exception of the objective leaves minimize.       *)
RECURSIVE minimize(_, _)
minimize(obj, x0) ==
    LET nb   == Neighbours(x0)
        best == CHOOSE y \in nb : \A z \in nb :
                    \/ obj[y].value < obj[z].value
                    \/ obj[y].value = obj[z].value /\ LexLe(y, z)
    IN  IF \E y \in nb \cup {x0} : obj[y].raised THEN [kind |-> "raise"]
        ELSE IF obj[best].value < obj[x0].value THEN minimize(obj, best)
        ELSE [kind |-> "result", x |-> x0, fun |-> obj[x0].value]

(* best_x before any start improved it (line 330). *)
NoX == << >>

(* The loop's bookkeeping before the first start (lines 330-332). *)
LoopInit == [best_x |-> NoX, best_rmse |-> Inf, starts_success |-> 0]

(* One pass of the loop body (lines 334-354) on the outcome of minimize:     *)
(* a raise is skipped, a non-finite fun is not counted, a finite fun counts  *)
(* and replaces the best when strictly lower.                                *)
AfterStartFaultResets(st, out) ==
    IF out.kind = "raise" THEN LoopInit
    ELSE IF ~isfinite(out.fun) THEN st
    ELSE [best_x |-> IF FLt(out.fun, st.best_rmse) THEN out.x ELSE st.best_x,
          best_rmse |-> IF FLt(out.fun, st.best_rmse) THEN out.fun ELSE st.best_rmse,
          starts_success |-> st.starts_success + 1]

AfterStartCountsAll(st, out) ==
    IF out.kind = "raise" THEN st
    ELSE IF ~isfinite(out.fun) THEN [st EXCEPT !.starts_success = @ + 1]
    ELSE [best_x |-> IF FLt(out.fun, st.best_rmse) THEN out.x ELSE st.best_x,
          best_rmse |-> IF FLt(out.fun, st.best_rmse) THEN out.fun ELSE st.best_rmse,
          starts_success |-> st.starts_success + 1]

AfterStartFirstWins(st, out) ==
    IF out.kind = "raise" THEN st
    ELSE IF ~isfinite(out.fun) THEN st
    ELSE [best_x |-> IF st.best_x = NoX THEN out.x ELSE st.best_x,
          best_rmse |-> IF st.best_x = NoX THEN out.fun ELSE st.best_rmse,
          starts_success |-> st.starts_success + 1]

AfterStart(st, out) ==
    IF out.kind = "raise" THEN st
    ELSE IF ~isfinite(out.fun) THEN st
    ELSE [best_x |-> IF FLt(out.fun, st.best_rmse) THEN out.x ELSE st.best_x,
          best_rmse |-> IF FLt(out.fun, st.best_rmse) THEN out.fun ELSE st.best_rmse,
          starts_success |-> st.starts_success + 1]

(* The loop over a sequence of outcomes, in order. *)
RECURSIVE AfterStarts(_, _)
AfterStarts(st, outs) ==
    IF outs = << >> THEN st
    ELSE AfterStarts(AfterStart(st, Head(outs)), Tail(outs))

(* The estimator up to its loop (lines 284-297): it returns None, raises, or *)
(* enters the loop with the flat mask and the objective closure; minimize,   *)
(* a function of the closure and the start, is tabulated with it.            *)
FitEntry(p, measured, num_points, gradient_limit, mode) ==
    LET out(stage, mask, deg, obj, min) ==
            [stage |-> stage, mask_flat |-> mask, degraded |-> deg,
             objective |-> obj, minimize |-> min]
    IN  IF Len(measured.capacity) < 3
        THEN out("return", << >>, << >>, << >>, << >>)
        ELSE TheOne({
            IF ~gm.valid THEN out("raise", << >>, << >>, << >>, << >>)
            ELSE IF ~AnyFlat(gm.mask) THEN out("return", gm.mask, << >>, << >>, << >>)
            ELSE TheOne({
                TheOne({ out("loop", gm.mask, deg, obj,
                             [x0 \in StartPoints |-> minimize(obj, x0)])
                         : obj \in {ObjectiveTable(deg, measured.capacity,
                                                   measured.ocv, gm.mask)} })
                : deg \in {DegradedTable(p, num_points, mode)} })
            : gm \in {gradient_mask(measured.capacity, measured.ocv, gradient_limit)} })

(* The estimator after its loop (lines 356-380): None, or the estimate;      *)
(* degraded is calculate_degraded_ocv_raw over the box.                      *)
FitReturnUnchecked(degraded, measured, mask_flat, num_starts, st) ==
    IF st.best_x = NoX \/ ~isfinite(st.best_rmse) THEN None
    ELSE [valid |-> TRUE,
          theta |-> st.best_x,
          rmse_v |-> st.best_rmse,
          mask_flat |-> mask_flat,
          predicted_ocv_at_measured |-> << >>,
          starts_tried |-> num_starts,
          starts_success |-> st.starts_success]

FitReturn(degraded, measured, mask_flat, num_starts, st) ==
    IF st.best_x = NoX \/ ~isfinite(st.best_rmse) THEN None
    ELSE LET degraded_best == degraded[st.best_x]
             pred_capacity == [i \in DOMAIN degraded_best.capacity_norm |->
                                  FSub(degraded_best.capacity_norm[i],
                                       degraded_best.x_cell_eoc)]
         IN  IF ~degraded_best.valid THEN None
             ELSE [valid |-> TRUE,
                   theta |-> st.best_x,
                   rmse_v |-> st.best_rmse,
                   mask_flat |-> mask_flat,
                   predicted_ocv_at_measured |->
                       [k \in DOMAIN measured.capacity |->
                           interp1d(pred_capacity, degraded_best.ocv_cell,
                                    measured.capacity[k])],
                   starts_tried |-> num_starts,
                   starts_success |-> st.starts_success]

(* The response of diagnostics_estimate to the estimator's answer (main.py   *)
(* 255-305).                                                                 *)
EstimateResponseNoFlat(est) ==
    IF ~est.valid
    THEN [status |-> 200, valid |-> FALSE, reason |-> "no_flat_region"]
    ELSE [status |-> 200, valid |-> TRUE,
          theta_deg |-> est.theta, rmse_v |-> est.rmse_v,
          mask_flat |-> est.mask_flat,
          predicted_ocv |-> est.predicted_ocv_at_measured,
          starts_tried |-> est.starts_tried,
          starts_success |-> est.starts_success,
          num_flat |-> Cardinality({i \in DOMAIN est.mask_flat : est.mask_flat[i]})]

EstimateResponse(est) ==
    IF ~est.valid
    THEN [status |-> 200, valid |-> FALSE,
          reason |-> "optimizer_failed_or_no_flat_region"]
    ELSE [status |-> 200, valid |-> TRUE,
          theta_deg |-> est.theta, rmse_v |-> est.rmse_v,
          mask_flat |-> est.mask_flat,
          predicted_ocv |-> est.predicted_ocv_at_measured,
          starts_tried |-> est.starts_tried,
          starts_success |-> est.starts_success,
          num_flat |-> Cardinality({i \in DOMAIN est.mask_flat : est.mask_flat[i]})]

(* The response to an HTTPException, or to an exception no handler catches.  *)
ErrorResponse(status) == [status |-> status, valid |-> FALSE]

(* No response: no request is being served. *)
NoResponse == [status |-> 0, valid |-> FALSE]

(***************************************************************************)
(* State.                                                                   *)
(***************************************************************************)
VARIABLES
    fsolve_mode,   \* how the root finder ends the solves it cannot converge
    fwd,           \* the last forward request (POST /ocv/curves) and its run
    pc,            \* where the inverse request (POST /diagnostics/estimate) is
    req,           \* the inverse request and its pristine cell
    measured,      \* the series handed to the estimator, None before that
    mask_flat,     \* the estimator's flat mask
    degraded_at,   \* calculate_degraded_ocv_raw over the box, for this request
    objective_at,  \* the estimator's objective closure, tabulated over the box
    minimize_at,   \* what minimize returns from each start point
    outcomes,      \* what minimize did in each start processed so far
    loop,          \* best_x, best_rmse, starts_success
    est,           \* what the estimator returned
    response,      \* the response of the inverse endpoint
    gm,            \* the last call of _gradient_mask and its result
    tab,           \* the last call of _load_half_cell_csv and its result
    clock,         \* time.time(), in whole seconds
    pool_files,    \* POOL_DIR: file name |-> content
    pool_req,      \* the pool_save requests in flight, one per worker thread
    pool_saved,    \* the pool_save requests answered so far, in order
    pool_resp      \* the last answer of pool_load or pool_list

fitVars == <<pc, req, measured, mask_flat, degraded_at, objective_at, minimize_at, outcomes, loop, est, response>>

pureVars == <<gm, tab>>

poolVars == <<clock, pool_files, pool_req, pool_saved, pool_resp>>

vars == <<fsolve_mode, fwd, fitVars, pureVars, poolVars>>

(* Request values: LLI, LAM_PE, LAM_NE >= 0 (schemas.py). *)
LliValues == {0, 3, 6, 9}

LamValues == {0, 6, 12, 18}

(* num_points as the handlers resolve it: the request's, else the profile's  *)
(* grid.num_points.                                                          *)
NumPoints == 1..MaxPoints

(* A pristine_id that is not in the catalog. *)
UnknownIds == {"Z"}

FitIdle ==
    /\ pc = "idle"
    /\ req = None
    /\ measured = None
    /\ mask_flat = << >>
    /\ degraded_at = << >>
    /\ objective_at = << >>
    /\ minimize_at = << >>
    /\ outcomes = << >>
    /\ loop = LoopInit
    /\ est = None
    /\ response = NoResponse

(* Most worker threads serving pool requests at once. *)
MaxWorkers == 2

Workers == 1..MaxWorkers

(* The pool directory is empty and no pool request is in flight. *)
PoolInit ==
    /\ clock = 0
    /\ pool_files = << >>
    /\ pool_req = [w \in Workers |-> None]
    /\ pool_saved = << >>
    /\ pool_resp = None

Init ==
    /\ fsolve_mode \in FsolveFailModes
    /\ fwd = None
    /\ FitIdle
    /\ gm = None
    /\ tab = None
    /\ PoolInit

(* ocv_curves (main.py 66-92): build the pristine cell, run the forward model. *)
ocv_curves(pristine_id, lli, lam_pe, lam_ne, n, pad) ==
    /\ fwd = None
    /\ pristine_id \in ProfileIds
    /\ \E pristine \in {build_pristine_cell_from_csv(pristine_id, n)} :
       \E run \in {SolveRun(pristine, lli, lam_pe, lam_ne, n, fsolve_mode)} :
       \E x_plot \in {build_plot_axis(pristine.x_grid, run.ret, pad)} :
       \E mapped \in {map_curves_to_plot_x(pristine, run.ret, x_plot)} :
           fwd' = [valid |-> TRUE, pristine_id |-> pristine_id,
                   lli |-> lli, lam_pe |-> lam_pe, lam_ne |-> lam_ne, n |-> n,
                   pad |-> pad, pristine |-> pristine, run |-> run,
                   x_plot |-> x_plot, mapped |-> mapped,
                   response |-> CurvesResponse(pristine_id, lli, lam_pe, lam_ne,
                                               x_plot, mapped)]
    /\ UNCHANGED <<fsolve_mode, fitVars, pureVars, poolVars>>

(* ocv_curves for a pristine_id the catalog does not hold (lines 68-70): the *)
(* handler raises HTTPException(404) before it builds anything.              *)
ocv_curves_unknown(pristine_id) ==
    /\ fwd = None
    /\ pristine_id \notin ProfileIds
    /\ fwd' = [valid |-> FALSE, pristine_id |-> pristine_id,
               response |-> [status |-> 404]]
    /\ UNCHANGED <<fsolve_mode, fitVars, pureVars, poolVars>>

(* The response is sent; the service holds nothing of the request. *)
Respond ==
    /\ fwd # None
    /\ fwd' = None
    /\ UNCHANGED <<fsolve_mode, fitVars, pureVars, poolVars>>

Next ==
    \/ \E pristine_id \in ProfileIds, lli \in LliValues, lam_pe \in LamValues,
       lam_ne \in LamValues, n \in NumPoints, pad \in BOOLEAN :
        ocv_curves(pristine_id, lli, lam_pe, lam_ne, n, pad)
    \/ \E pristine_id \in UnknownIds : ocv_curves_unknown(pristine_id)
    \/ Respond

Spec == Init /\ [][Next]_vars

(***************************************************************************)
(* The inverse endpoint (main.py 214-305) and the estimator's loop.         *)
(***************************************************************************)
(* Largest num_starts. *)
MaxStarts == 2

(* gradient_limit > 0 (schemas.py). *)
GradientLimits == {1, 7}

(* Inline payloads (MeasuredOcvPayload: two lists of floats). *)
InlinePayloads ==
    { [capacity |-> <<0, 6, 12>>, ocv |-> <<50, 40, 31>>],
      [capacity |-> <<0, 6, 12>>, ocv |-> <<54, 39, 18>>],
      [capacity |-> <<0, 1, 2>>,  ocv |-> <<54, 30, 6>>],
      [capacity |-> <<6, 0, 0>>,  ocv |-> <<40, 50, 50>>],
      [capacity |-> <<0, NaN, 12>>, ocv |-> <<50, 40, 31>>],
      [capacity |-> <<0, 6, 12>>, ocv |-> <<50, 40>>],
      [capacity |-> <<0, 4, 8, 12>>, ocv |-> <<50, 40, 31>>],
      [capacity |-> <<0, 12>>,    ocv |-> <<50, 31>>] }

(* Contents of the MAT files a request can name. *)
MatFiles ==
    { [has_data |-> TRUE,  capacity |-> <<12, NaN, 0, 6>>, ocv |-> <<31, 5, 50, 40>>],
      [has_data |-> TRUE,  capacity |-> <<6, 0, 6, 12>>,  ocv |-> <<40, 50, 39, 31>>],
      [has_data |-> TRUE,  capacity |-> <<0, 6, NaN>>,    ocv |-> <<50, 40, 31>>],
      [has_data |-> TRUE,  capacity |-> <<0, 6, 12>>,     ocv |-> <<50, 40>>],
      [has_data |-> FALSE, capacity |-> << >>,            ocv |-> << >>] }

(* What a request carries: measured, else mat_path, else neither. *)
Sources ==
    {[kind |-> "json", data |-> d] : d \in InlinePayloads}
        \cup {[kind |-> "mat", data |-> d] : d \in MatFiles}
        \cup {[kind |-> "none", data |-> None]}

(* The series of the request (main.py 234-244): the inline arrays as they    *)
(* are, the cleaned content of the MAT file, or the exception raised.        *)
MeasuredFrom(src) ==
    IF src.kind = "json" THEN MeasuredOcv(src.data.capacity, src.data.ocv)
    ELSE IF src.kind = "mat" THEN load_measured_ocv_from_mat(src.data)
    ELSE Raised("HTTPException")

(* The handler ends with this response, the estimator having returned e.     *)
Answer(e, r) ==
    /\ pc' = "done"
    /\ est' = e
    /\ response' = r

(* diagnostics_estimate up to the estimator's loop: the pristine cell, the   *)
(* measured series, the estimator's early returns, the mask, the closure.    *)
diagnostics_estimate(pristine_id, n, src, gradient_limit) ==
    /\ pc = "idle"
    /\ \E pristine \in {build_pristine_cell_from_csv(pristine_id, n)},
          m \in {MeasuredFrom(src)} :
        /\ \E num_starts \in 1..MaxStarts :
             req' = [valid |-> TRUE, pristine_id |-> pristine_id, n |-> n,
                   src |-> src.kind, num_starts |-> num_starts,
                   gradient_limit |-> gradient_limit, pristine |-> pristine]
        /\ IF ~m.valid
           THEN /\ Answer(None, ErrorResponse(IF src.kind = "none" THEN 400 ELSE 500))
                /\ UNCHANGED <<measured, mask_flat, degraded_at, objective_at, minimize_at>>
           ELSE \E e \in {FitEntry(pristine, m, n, gradient_limit, fsolve_mode)} :
                /\ measured' = m
                /\ mask_flat' = e.mask_flat
                /\ degraded_at' = e.degraded
                /\ objective_at' = e.objective
                /\ minimize_at' = e.minimize
                /\ IF e.stage = "loop"
                   THEN /\ pc' = "loop"
                        /\ UNCHANGED <<est, response>>
                   ELSE IF e.stage = "raise"
                   THEN Answer(None, ErrorResponse(500))
                   ELSE Answer(None, EstimateResponse(None))
    /\ UNCHANGED <<fsolve_mode, fwd, outcomes, loop, pureVars, poolVars>>

(* What minimize does in one start: its result from x0, or a failure of the  *)
(* optimizer itself, which raises or ends with a non-finite fun.             *)
StartFaults == {"none", "raise", "diverge"}

StartOutcome(x0, fault) ==
    IF fault = "raise" THEN [kind |-> "raise"]
    ELSE IF fault = "diverge" THEN [kind |-> "result", x |-> <<NaN, NaN, NaN>>, fun |-> NaN]
    ELSE minimize_at[x0]

(* One pass of the loop (lines 334-354), x0 the start rng.random drew. *)
RunStart(x0, fault) ==
    /\ pc = "loop"
    /\ Len(outcomes) < req.num_starts
    /\ \E out \in {StartOutcome(x0, fault)} :
        /\ outcomes' = Append(outcomes, out)
        /\ loop' = AfterStart(loop, out)
    /\ UNCHANGED <<fsolve_mode, fwd, pc, req, measured, mask_flat, degraded_at,
                   objective_at, minimize_at, est, response, pureVars, poolVars>>

(* After the last start (lines 356-380, main.py 255-305). *)
FinishEstimate ==
    /\ pc = "loop"
    /\ Len(outcomes) = req.num_starts
    /\ \E e \in {FitReturn(degraded_at, measured, mask_flat, req.num_starts, loop)} :
        Answer(e, EstimateResponse(e))
    /\ UNCHANGED <<fsolve_mode, fwd, req, measured, mask_flat, degraded_at,
                   objective_at, minimize_at, outcomes, loop, pureVars, poolVars>>

(* The response is sent; the service holds nothing of the request. *)
RespondEstimate ==
    /\ pc = "done"
    /\ pc' = "idle"
    /\ req' = None
    /\ measured' = None
    /\ mask_flat' = << >>
    /\ degraded_at' = << >>
    /\ objective_at' = << >>
    /\ minimize_at' = << >>
    /\ outcomes' = << >>
    /\ loop' = LoopInit
    /\ est' = None
    /\ response' = NoResponse
    /\ UNCHANGED <<fsolve_mode, fwd, pureVars, poolVars>>

NextFit ==
    \/ \E pristine_id \in ProfileIds, n \in NumPoints, src \in Sources,
          gradient_limit \in GradientLimits :
        diagnostics_estimate(pristine_id, n, src, gradient_limit)
    \/ \E x0 \in StartPoints, fault \in StartFaults : RunStart(x0, fault)
    \/ FinishEstimate
    \/ RespondEstimate

(* The estimator reads of a solve only whether it gave a curve, and line 76   *)
(* passes every status above 0: one failing status stands for the four.      *)
InitFit ==
    /\ Init
    /\ fsolve_mode.kind = "status" => fsolve_mode.ier = 2

SpecFit == InitFit /\ [][NextFit]_vars

(***************************************************************************)
(* _gradient_mask on its own, over every series of the lattice below.       *)
(***************************************************************************)
CapacityValues == {0, 1, NaN}

OcvValues == {0, 50, NaN}

SeriesOfLen(n) == [1..n -> CapacityValues \X OcvValues]

MaskLimits == {1, 6}

CallGradientMask(series, gradient_limit) ==
    /\ gm = None
    /\ LET capacity == [i \in DOMAIN series |-> series[i][1]]
           ocv      == [i \in DOMAIN series |-> series[i][2]]
       IN  gm' = [valid |-> TRUE, capacity |-> capacity, ocv |-> ocv,
                  gradient_limit |-> gradient_limit,
                  ret |-> gradient_mask(capacity, ocv, gradient_limit)]
    /\ UNCHANGED <<fsolve_mode, fwd, fitVars, tab, poolVars>>

ReturnGradientMask ==
    /\ gm # None
    /\ gm' = None
    /\ UNCHANGED <<fsolve_mode, fwd, fitVars, tab, poolVars>>

NextMask ==
    \/ \E n \in 3..MaxLen, gradient_limit \in MaskLimits :
         \E series \in SeriesOfLen(n) : CallGradientMask(series, gradient_limit)
    \/ ReturnGradientMask

SpecMask == InitFit /\ [][NextMask]_vars

(***************************************************************************)
(* _load_half_cell_csv alone, over the files genfromtxt can hand it.        *)
(***************************************************************************)
(* Most rows of a file. *)
MaxRows == 3

(* The cells of the SOL and OCV columns; NaN is a cell that is not a number. *)
SolCells == {0, 6, NaN}

OcvCells == {2, 4, NaN}

CsvFiles == UNION {[1..n -> SolCells \X OcvCells] : n \in 0..MaxRows}

CallLoadHalfCellCsv(rows) ==
    /\ tab = None
    /\ tab' = [valid |-> TRUE, rows |-> rows, ret |-> LoadHalfCellCsv(rows)]
    /\ UNCHANGED <<fsolve_mode, fwd, fitVars, gm, poolVars>>

ReturnLoadHalfCellCsv ==
    /\ tab # None
    /\ tab' = None
    /\ UNCHANGED <<fsolve_mode, fwd, fitVars, gm, poolVars>>

NextCsv ==
    \/ \E rows \in CsvFiles : CallLoadHalfCellCsv(rows)
    \/ ReturnLoadHalfCellCsv

SpecCsv == InitFit /\ [][NextCsv]_vars

(***************************************************************************)
(* The degraded pool (main.py 137-203): one JSON file per saved item in     *)
(* POOL_DIR.  The handlers are plain functions, which the server runs on    *)
(* worker threads: a save is three steps, and steps of two requests         *)
(* interleave.                                                              *)
(***************************************************************************)
(* Last second the clock reaches. *)
MaxClock == 1

(* Most pool_save requests of one run. *)
MaxSaves == 2

(* The PoolSaveRequest bodies. *)
SaveRequests ==
    [pristine_id : {"A", "Z"}, label : {"first", "second"},
     lli : {3}, lam_pe : {0}, lam_ne : {6}]

(* item_id = f'deg_{ts}' and the file f'{item_id}.json'. *)
ItemId(ts) == <<"deg", ts>>

(* The payload pool_save writes (lines 148-156). *)
Payload(r, ts) ==
    [id |-> ItemId(ts), created_at |-> ts, label |-> r.label,
     pristine_id |-> r.pristine_id, pristine_snapshot |-> Catalog[r.pristine_id],
     degradation |-> [LLI |-> r.lli, LAM_PE |-> r.lam_pe, LAM_NE |-> r.lam_ne],
     solver |-> << >>]

(* The pool files: a file holds << >> once opened for writing and <<payload>> *)
(* once json.dump has written it.                                           *)
FileExists(id) == id \in DOMAIN pool_files

WriteFile(files, id, text) ==
    [f \in DOMAIN files \cup {id} |-> IF f = id THEN text ELSE files[f]]

(* time.time() passes a second. *)
Tick ==
    /\ clock < MaxClock
    /\ clock' = clock + 1
    /\ UNCHANGED <<fsolve_mode, fwd, fitVars, pureVars, pool_files, pool_req,
                   pool_saved, pool_resp>>

(* pool_save up to the payload (lines 139-156): 404 for an unknown profile,   *)
(* else the id from the clock's whole seconds.                                *)
pool_save(w, r) ==
    /\ ~pool_req[w].valid
    /\ Len(pool_saved) + Cardinality({v \in Workers : pool_req[v].valid}) < MaxSaves
    /\ IF r.pristine_id \notin ProfileIds
       THEN /\ pool_resp' = [valid |-> TRUE, status |-> 404]
            /\ UNCHANGED pool_req
       ELSE /\ pool_req' = [pool_req EXCEPT ![w] =
                               [valid |-> TRUE, stage |-> "open", ts |-> clock,
                                payload |-> Payload(r, clock)]]
            /\ UNCHANGED pool_resp
    /\ UNCHANGED <<fsolve_mode, fwd, fitVars, pureVars, clock, pool_files, pool_saved>>

(* out_path.open('w') (line 159): the file is created or truncated. *)
pool_save_open(w) ==
    /\ pool_req[w].valid /\ pool_req[w].stage = "open"
    /\ pool_files' = WriteFile(pool_files, pool_req[w].payload.id, << >>)
    /\ pool_req' = [pool_req EXCEPT ![w].stage = "dump"]
    /\ UNCHANGED <<fsolve_mode, fwd, fitVars, pureVars, clock, pool_saved, pool_resp>>

(* json.dump, close, return {'ok': True, 'id': item_id} (lines 160-162). *)
pool_save_dump(w) ==
    /\ pool_req[w].valid /\ pool_req[w].stage = "dump"
    /\ pool_files' = WriteFile(pool_files, pool_req[w].payload.id, <<pool_req[w].payload>>)
    /\ pool_saved' = Append(pool_saved, [id |-> pool_req[w].payload.id,
                                         ts |-> pool_req[w].ts,
                                         payload |-> pool_req[w].payload])
    /\ pool_req' = [pool_req EXCEPT ![w] = None]
    /\ UNCHANGED <<fsolve_mode, fwd, fitVars, pureVars, clock, pool_resp>>

(* json.load of a pool file: the document, or a raise on an empty file. *)
JsonLoad(text) == IF text = << >> THEN Raised("JSONDecodeError") ELSE text[1]

(* What pool_load answers for item_id (lines 193-203). *)
PoolLoadAnswer(item_id) ==
    IF item_id = << >> THEN [valid |-> TRUE, status |-> 400]
    ELSE IF ~FileExists(item_id) THEN [valid |-> TRUE, status |-> 404]
    ELSE LET raw == JsonLoad(pool_files[item_id])
         IN  IF "raised" \in DOMAIN raw THEN [valid |-> TRUE, status |-> 500]
             ELSE [valid |-> TRUE, status |-> 200, raw |-> raw]

pool_load(item_id) ==
    /\ pool_resp' = PoolLoadAnswer(item_id)
    /\ UNCHANGED <<fsolve_mode, fwd, fitVars, pureVars, clock, pool_files, pool_req,
                   pool_saved>>

(* The summary pool_list makes of one file (lines 175-186). *)
PoolItemSummary(raw) ==
    [id |-> raw.id, created_at |-> raw.created_at, label |-> raw.label,
     pristine_id |-> raw.pristine_id, lli |-> raw.degradation.LLI,
     lam_pe |-> raw.degradation.LAM_PE, lam_ne |-> raw.degradation.LAM_NE]

(* sorted(POOL_DIR.glob('*.json'), reverse=True): every file name is deg_ and *)
(* the second, so the order is that of the seconds, latest first.            *)
RECURSIVE SortedReverse(_)
SortedReverse(ids) ==
    IF ids = {} THEN << >>
    ELSE LET top == CHOOSE a \in ids : \A b \in ids : a[2] >= b[2]
         IN  <<top>> \o SortedReverse(ids \ {top})

RECURSIVE ListItems(_)
ListItems(paths) ==
    IF paths = << >> THEN << >>
    ELSE LET raw == JsonLoad(pool_files[Head(paths)])
         IN  IF "raised" \in DOMAIN raw THEN ListItems(Tail(paths))
             ELSE <<PoolItemSummary(raw)>> \o ListItems(Tail(paths))

(* pool_list (lines 165-190): a file that cannot be read is skipped. *)
pool_list ==
    /\ pool_resp' = [valid |-> TRUE, status |-> 200,
                     items |-> ListItems(SortedReverse(DOMAIN pool_files))]
    /\ UNCHANGED <<fsolve_mode, fwd, fitVars, pureVars, clock, pool_files, pool_req,
                   pool_saved>>

NextPool ==
    \/ Tick
    \/ \E w \in Workers, r \in SaveRequests : pool_save(w, r)
    \/ \E w \in Workers : pool_save_open(w)
    \/ \E w \in Workers : pool_save_dump(w)
    \/ \E item_id \in {ItemId(ts) : ts \in 0..MaxClock} \cup {<< >>} : pool_load(item_id)
    \/ pool_list

SpecPool == InitFit /\ [][NextPool]_vars

(***************************************************************************)
(* Properties of the forward model.                                         *)
(***************************************************************************)
FwdTheta == <<fwd.lli, fwd.lam_pe, fwd.lam_ne>>

FwdCurve == fwd.run.ret

(* C1: with LAM_PE >= 1 or LAM_NE >= 1 the forward model returns None and    *)
(* never calls the root finder.                                              *)
C1_InadmissibleThetaIsInvalid ==
    (fwd.valid /\ (fwd.lam_pe >= One \/ fwd.lam_ne >= One))
        => (~FwdCurve.valid /\ ~fwd.run.fsolve_called)

C1_Witness ==
    /\ fwd.valid
    /\ fwd.lam_ne = One
    /\ fwd.lam_pe < One
    /\ ~FwdCurve.valid
    /\ ~fwd.run.fsolve_called

(* C2: a curve is returned only when the root finder reports convergence     *)
(* (ier = 1) with a finite solution; every other ending gives None.          *)
C2_OnlyConvergedSolveYieldsCurve ==
    (fwd.valid /\ FwdCurve.valid)
        => /\ fwd.run.fs.kind = "status"
           /\ fwd.run.fs.ier = 1
           /\ isfinite(fwd.run.fs.sol[1])
           /\ isfinite(fwd.run.fs.sol[2])

(* C3 (as claimed): every returned curve has a finite window with            *)
(* x_cell_eod > x_cell_eoc, capacity x_cell_eod - x_cell_eoc > 0 and         *)
(* num_points samples running from x_cell_eoc to x_cell_eod; a window with   *)
(* x_cell_eod <= x_cell_eoc gives None.                                      *)
C3_WindowOfReturnedCurve ==
    /\ (fwd.valid /\ FwdCurve.valid) =>
          /\ FwdCurve.x_cell_eoc = FwdCurve.delta_x_eoc
          /\ FwdCurve.x_cell_eod = One - fwd.lli + FwdCurve.delta_x_eod
          /\ isfinite(FwdCurve.x_cell_eoc) /\ isfinite(FwdCurve.x_cell_eod)
          /\ FwdCurve.x_cell_eod > FwdCurve.x_cell_eoc
          /\ FwdCurve.cell_capacity = FwdCurve.x_cell_eod - FwdCurve.x_cell_eoc
          /\ FwdCurve.cell_capacity > 0
          /\ Len(FwdCurve.capacity_norm) = fwd.n
          /\ FwdCurve.capacity_norm[1] = FwdCurve.x_cell_eoc
    /\ (fwd.valid /\ fwd.run.fs.kind = "status"
          /\ FLe(FAdd(One - fwd.lli, fwd.run.fs.sol[2]), fwd.run.fs.sol[1]))
         => ~FwdCurve.valid

C3_SamplesEndAtEod ==
    /\ C3_WindowOfReturnedCurve
    /\ (fwd.valid /\ FwdCurve.valid)
         => Last(FwdCurve.capacity_norm) = FwdCurve.x_cell_eod

(* C3 (amended): the last sample is x_cell_eod when num_points >= 2; with    *)
(* num_points = 1 the one sample is x_cell_eoc.                              *)
C3_SamplesEndAtEodFromTwoPoints ==
    /\ C3_WindowOfReturnedCurve
    /\ (fwd.valid /\ FwdCurve.valid /\ fwd.n >= 2)
         => Last(FwdCurve.capacity_norm) = FwdCurve.x_cell_eod

C3_Witness ==
    /\ fwd.valid
    /\ FwdCurve.valid
    /\ fwd.n >= 2
    /\ fwd.lli > 0
    /\ FwdCurve.delta_x_eod # 0
    /\ Last(FwdCurve.capacity_norm) = FwdCurve.x_cell_eod

(* C4 (as claimed): at theta = (0,0,0) the start (0,0) zeroes both residuals, *)
(* the solve returns it, the window is [0,1] and the sampled curve is the     *)
(* pristine ocv_cell grid.                                                    *)
ZeroThetaIsPristine ==
    /\ equations(fwd.pristine, 0, 0, 0, <<0, 0>>) = <<0, 0>>
    /\ fwd.run.fs.ier = 1
    /\ FwdCurve.valid
    /\ FwdCurve.delta_x_eoc = 0
    /\ FwdCurve.delta_x_eod = 0
    /\ FwdCurve.x_cell_eoc = 0
    /\ FwdCurve.x_cell_eod = One
    /\ FwdCurve.capacity_norm = fwd.pristine.x_grid
    /\ FwdCurve.ocv_cell = fwd.pristine.ocv_cell

GradientBelowLimit(capacity, ocv, i, gradient_limit) ==
    /\ isfinite(capacity[i]) /\ isfinite(capacity[i + 1])
    /\ isfinite(ocv[i]) /\ isfinite(ocv[i + 1])
    /\ LET dv == Abs(ocv[i + 1] - ocv[i])
           ds == Abs(100 * capacity[i + 1] - 100 * capacity[i])
       IN  IF ds > 0 THEN dv * One < gradient_limit * ds
           ELSE dv * EpsInv < gradient_limit

(* The gradient equals the limit exactly. *)
GradientAtLimit(capacity, ocv, i, gradient_limit) ==
    /\ isfinite(capacity[i]) /\ isfinite(capacity[i + 1])
    /\ isfinite(ocv[i]) /\ isfinite(ocv[i + 1])
    /\ capacity[i + 1] # capacity[i]
    /\ Abs(ocv[i + 1] - ocv[i]) * One
          = gradient_limit * Abs(100 * capacity[i + 1] - 100 * capacity[i])

(* C7: for a series of n points the flat mask has n entries, flat[i] for     *)
(* i < n - 1 is the strict comparison of the gradient with gradient_limit,   *)
(* and the last entry is FALSE.                                              *)
C7_FlatMaskIsStrictGradientTest ==
    gm.valid =>
        LET n == Len(gm.capacity)
        IN  /\ gm.ret.valid
            /\ Len(gm.ret.mask) = n
            /\ \A i \in 1..(n - 1) :
                 gm.ret.mask[i] <=>
                    GradientBelowLimit(gm.capacity, gm.ocv, i, gm.gradient_limit)
            /\ gm.ret.mask[n] = FALSE

C7_Witness ==
    /\ gm.valid
    /\ gm.ret.valid
    /\ gm.ret.mask[1]
    /\ GradientAtLimit(gm.capacity, gm.ocv, 2, gm.gradient_limit)
    /\ ~gm.ret.mask[2]
    /\ ~gm.ret.mask[Len(gm.capacity)]

(***************************************************************************)
(* Properties of the inverse estimator and its endpoint.                    *)
(***************************************************************************)
(* The estimator was called and returned (it did not raise). *)
FitReturned == pc = "done" /\ measured.valid /\ response.status = 200

(* The estimator returned None. *)
FitAbsent == FitReturned /\ ~est.valid

(* The estimator entered its loop over the starts. *)
LoopEntered == measured.valid /\ AnyFlat(mask_flat)

(* No consecutive pair of the series has its gradient below the limit. *)
NoFlatPair ==
    /\ measured.valid
    /\ Len(measured.capacity) = Len(measured.ocv)
    /\ \A i \in 1..(Len(measured.capacity) - 1) :
         ~GradientBelowLimit(measured.capacity, measured.ocv, i, req.gradient_limit)

(* C5: a series with no pair below gradient_limit makes the estimator return *)
(* None without raising and without running a start, and the endpoint        *)
(* answers 200 with valid = false.                                           *)
C5_NoFlatRegionIsAbsent ==
    NoFlatPair =>
        /\ pc = "done"
        /\ outcomes = << >>
        /\ ~est.valid
        /\ response.status = 200
        /\ ~response.valid

C5_Witness ==
    /\ NoFlatPair
    /\ Len(measured.capacity) >= 3
    /\ \A i \in DOMAIN measured.capacity :
         isfinite(measured.capacity[i]) /\ isfinite(measured.ocv[i])
    /\ mask_flat = [i \in DOMAIN measured.capacity |-> FALSE]
    /\ pc = "done"
    /\ outcomes = << >>
    /\ response.status = 200
    /\ ~response.valid

(* The estimator returned None because the flat mask is empty. *)
AbsentForNoFlatRegion ==
    FitAbsent /\ Len(measured.capacity) >= 3 /\ ~AnyFlat(mask_flat)

(* The estimator returned None because no start gave a finite objective. *)
AbsentForNoFiniteStart == FitAbsent /\ LoopEntered /\ loop.best_x = NoX

Reorderings(outs) ==
    {[i \in DOMAIN outs |-> outs[p[i]]] : p \in Permutations(DOMAIN outs)}

(* What the estimator returns when its loop ends in st. *)
ReturnAfter(st) ==
    FitReturn(degraded_at, measured, mask_flat, req.num_starts, st)

(* The loop ending in st gives the result the estimator gave. *)
SameResult(st) ==
    IF est.valid THEN st.best_x = est.theta /\ st.best_rmse = est.rmse_v
    ELSE ~ReturnAfter(st).valid

(* The starts that ended with a finite fun. *)
Finite(outs) == {i \in DOMAIN outs : outs[i].kind = "result" /\ isfinite(outs[i].fun)}

(* The starts that reached the lowest finite fun. *)
Lowest(outs) == {i \in Finite(outs) : \A j \in Finite(outs) : outs[i].fun <= outs[j].fun}

(* C8 (as claimed): the estimator's result (theta and RMSE, or None) is the  *)
(* same for every order of processing the starts, ties at different theta    *)
(* included.                                                                 *)
C8_OrderDoesNotChangeResult ==
    (FitReturned /\ LoopEntered) =>
        \A outs \in Reorderings(outcomes) : SameResult(AfterStarts(LoopInit, outs))

(* C8 (amended): the best objective and the count of finite starts are the   *)
(* same for every order; theta (and a None for an infeasible theta) is the   *)
(* same when the lowest starts agree on theta; among lowest starts at        *)
(* different theta the first processed is returned.                          *)
C8_OrderChangesOnlyThetaOfTies ==
    (FitReturned /\ LoopEntered) =>
        /\ \A outs \in Reorderings(outcomes) :
             LET st == AfterStarts(LoopInit, outs)
             IN  /\ st.best_rmse = loop.best_rmse
                 /\ st.starts_success = loop.starts_success
                 /\ (\A i, j \in Lowest(outcomes) : outcomes[i].x = outcomes[j].x)
                       => SameResult(st)
        /\ Lowest(outcomes) # {} =>
             LET first == CHOOSE i \in Lowest(outcomes) :
                              \A j \in Lowest(outcomes) : i <= j
             IN  /\ loop.best_x = outcomes[first].x
                 /\ est.valid => est.theta = outcomes[first].x

C8_Witness ==
    /\ FitReturned
    /\ est.valid
    /\ Len(outcomes) = 2
    /\ Lowest(outcomes) = {1, 2}
    /\ outcomes[1].x # outcomes[2].x
    /\ est.theta = outcomes[1].x
    /\ est.rmse_v = outcomes[2].fun
    /\ est.rmse_v < Penalty

(* C9: a start in which minimize raises, or ends with a non-finite fun, is   *)
(* skipped: the loop stands where the other starts alone bring it, every     *)
(* start is processed, no exception leaves the estimator, and its result is  *)
(* the one of the other starts.                                              *)
C9_FailedStartIsSkipped ==
    LoopEntered =>
        LET others == [k \in 1..Cardinality(Finite(outcomes)) |->
                          outcomes[SortedSeq(Finite(outcomes))[k]]]
        IN  /\ loop = AfterStarts(LoopInit, others)
            /\ pc = "done" =>
                 /\ Len(outcomes) = req.num_starts
                 /\ response.status = 200
                 /\ SameResult(AfterStarts(LoopInit, others))
                 /\ est.valid => est.starts_success = Cardinality(Finite(outcomes))

C9_Witness ==
    /\ FitReturned
    /\ est.valid
    /\ Len(outcomes) = 2
    /\ outcomes[1].kind = "raise"
    /\ outcomes[2].kind = "result"
    /\ est.theta = outcomes[2].x
    /\ est.starts_success = 1

(* A series of equal-length arrays of at least 3 points, all finite, the     *)
(* capacities strictly increasing.                                           *)
WellFormedSeries(m) ==
    /\ Len(m.capacity) = Len(m.ocv)
    /\ Len(m.capacity) >= 3
    /\ \A i \in DOMAIN m.capacity : isfinite(m.capacity[i])
    /\ \A i \in DOMAIN m.ocv : isfinite(m.ocv[i])
    /\ \A i \in 1..(Len(m.capacity) - 1) : m.capacity[i] < m.capacity[i + 1]

(* C10: every series handed to the estimator, inline or from a MAT file, is  *)
(* well formed: equal lengths, finite values, sorted by capacity without     *)
(* duplicates, at least 3 points.                                            *)
C10_SeriesReachingFitIsWellFormed ==
    measured.valid => WellFormedSeries(measured)

(***************************************************************************)
(* The forward endpoint's response.                                         *)
(***************************************************************************)
FwdResponse == fwd.response

(* A curve bundle of the response: x, ocv and mask_valid over the n points. *)
IsBundle(b) ==
    /\ DOMAIN b = {"x", "ocv", "mask_valid"}
    /\ Len(b.x) = fwd.n /\ Len(b.ocv) = fwd.n /\ Len(b.mask_valid) = fwd.n
    /\ b.x = fwd.x_plot

RowsSharing(v) == {i \in DOMAIN tab.rows : tab.rows[i][1] = v}

(* The rows whose two cells are both finite numbers. *)
NumericRows == {i \in DOMAIN tab.rows : isfinite(tab.rows[i][1]) /\ isfinite(tab.rows[i][2])}

(* The lithiation fractions that remain once the other rows are dropped. *)
RemainingSol == {tab.rows[i][1] : i \in NumericRows}

RECURSIVE SumOcv(_)
SumOcv(idx) ==
    IF idx = {} THEN 0
    ELSE LET i == CHOOSE j \in idx : TRUE IN tab.rows[i][2] + SumOcv(idx \ {i})

(* m is the arithmetic mean of the OCV cells of the rows idx, to the lattice: *)
(* a mean over a cell that is not a finite number is no finite number.       *)
IsMeanOcv(m, idx) ==
    /\ idx # {}
    /\ \A i \in idx : isfinite(tab.rows[i][2])
    /\ Cardinality(idx) * m <= SumOcv(idx)
    /\ SumOcv(idx) < Cardinality(idx) * (m + 1)

StrictlyIncreasing(sol) == \A k \in 1..(Len(sol) - 1) : sol[k] < sol[k + 1]

(* C12, as stated: the returned fractions are strictly increasing, each      *)
(* returned OCV is the mean of the OCV of all rows of the input sharing its  *)
(* fraction, and fewer than 2 remaining unique finite fractions is an error. *)
C12_TableIsMeanOfAllRows ==
    tab # None =>
        /\ Cardinality(RemainingSol) < 2 => tab.ret = Raised("ValueError")
        /\ tab.ret.valid =>
              /\ StrictlyIncreasing(tab.ret.sol)
              /\ Len(tab.ret.ocv) = Len(tab.ret.sol)
              /\ \A k \in DOMAIN tab.ret.sol :
                     IsMeanOcv(tab.ret.ocv[k], RowsSharing(tab.ret.sol[k]))

(* C12, amended: the mean is over the rows whose fraction and OCV are both    *)
(* finite; a row with a non-finite cell is dropped before the grouping.       *)
C12_TableIsMeanOfNumericRows ==
    tab # None =>
        /\ Cardinality(RemainingSol) < 2 => tab.ret = Raised("ValueError")
        /\ tab.ret.valid =>
              /\ StrictlyIncreasing(tab.ret.sol)
              /\ Len(tab.ret.ocv) = Len(tab.ret.sol)
              /\ \A k \in DOMAIN tab.ret.sol :
                     IsMeanOcv(tab.ret.ocv[k], RowsSharing(tab.ret.sol[k]) \cap NumericRows)

(* A table out of file order with two numeric rows of one fraction and       *)
(* different OCV.                                                            *)
C12_Witness ==
    /\ tab # None /\ tab.ret.valid
    /\ tab.rows[1][1] > tab.rows[2][1]
    /\ \E i, j \in NumericRows :
          /\ i < j /\ tab.rows[i][1] = tab.rows[j][1] /\ tab.rows[i][2] > tab.rows[j][2]

(* Fewer than two fractions remain and the call raised. *)
C12_WitnessError ==
    /\ tab # None
    /\ Cardinality(RemainingSol) = 1
    /\ Cardinality({tab.rows[i][1] : i \in DOMAIN tab.rows} \ {NaN}) = 2
    /\ tab.ret = Raised("ValueError")


(***************************************************************************)
(* The objective of the fit.                                                *)
(***************************************************************************)
(* The positions the flat mask flags. *)
FlatPoints == {k \in DOMAIN mask_flat : mask_flat[k]}

(* Predicted minus measured OCV at measured point k, for the curve d. *)
ErrAt(d, k) ==
    FSub(interp1d([i \in DOMAIN d.capacity_norm |-> FSub(d.capacity_norm[i], d.x_cell_eoc)],
                  d.ocv_cell, measured.capacity[k]),
         measured.ocv[k])

RECURSIVE SumSq(_, _)
SumSq(d, idx) ==
    IF idx = {} THEN 0
    ELSE LET k == CHOOSE j \in idx : TRUE
         IN  ErrAt(d, k) * ErrAt(d, k) + SumSq(d, idx \ {k})

(* The root mean square of the errors over the flat points has no finite     *)
(* value.                                                                    *)
RmseNotFinite(d) ==
    \/ Len(d.capacity_norm) < 2
    \/ FlatPoints = {}
    \/ \E k \in FlatPoints : ~isfinite(ErrAt(d, k))

(* v is that root mean square, to the lattice. *)
IsRmse(v, d) ==
    /\ v >= 0
    /\ Cardinality(FlatPoints) * v * v <= SumSq(d, FlatPoints)
    /\ SumSq(d, FlatPoints) < Cardinality(FlatPoints) * (v + 1) * (v + 1)

ObjectiveAsClaimed(theta) ==
    LET d == degraded_at[theta]
        o == objective_at[theta]
    IN  /\ ~o.raised
        /\ isfinite(o.value)
        /\ IF ~d.valid THEN o.value = Penalty
           ELSE IF ~isfinite(d.cell_capacity) \/ d.cell_capacity <= 0 THEN o.value = Penalty
           ELSE IF RmseNotFinite(d) THEN o.value = Penalty
           ELSE IsRmse(o.value, d)

(* C13: at every theta the objective returns without raising a finite value: *)
(* the penalty when solve gave None, the window capacity is not positive and *)
(* finite, or the RMSE is not finite, and otherwise the RMSE of predicted    *)
(* against measured OCV over the flat-mask points.                           *)
C13_ObjectiveIsPenaltyOrRmse ==
    \A theta \in DOMAIN objective_at : ObjectiveAsClaimed(theta)

(* The same for a measured series whose two arrays have one length. *)
C13_ObjectiveOnPairs ==
    (measured.valid /\ Len(measured.capacity) = Len(measured.ocv)) =>
        \A theta \in DOMAIN objective_at : ObjectiveAsClaimed(theta)

(* On a series of pairs the objective takes the penalty at one theta and an  *)
(* RMSE below it at another.                                                 *)
C13_PairsWitness ==
    /\ measured.valid /\ Len(measured.capacity) = Len(measured.ocv)
    /\ \E a, b \in DOMAIN objective_at :
          /\ objective_at[a].value = Penalty
          /\ degraded_at[b].valid /\ ~RmseNotFinite(degraded_at[b])
          /\ objective_at[b].value > 0 /\ objective_at[b].value < Penalty


(***************************************************************************)
(* The bookkeeping of the multistart loop.                                  *)
(***************************************************************************)
(* The loop has processed every start. *)
AllStartsProcessed ==
    /\ LoopEntered
    /\ pc \in {"loop", "done"}
    /\ Len(outcomes) = req.num_starts

(* C14: once every start is processed, best_rmse is the least finite final   *)
(* objective of the starts that did not fail and best_x the final theta of a *)
(* start that attains it; starts_success counts the starts with a finite     *)
(* final objective; starts_tried is num_starts and starts_success does not   *)
(* exceed it; with starts_success = 0 the estimator returns None.            *)
C14_LoopTracksLeastFiniteStart ==
    AllStartsProcessed =>
        /\ Finite(outcomes) # {} =>
              /\ \A i \in Finite(outcomes) : loop.best_rmse <= outcomes[i].fun
              /\ \E i \in Finite(outcomes) :
                    /\ outcomes[i].fun = loop.best_rmse
                    /\ outcomes[i].x = loop.best_x
        /\ loop.starts_success = Cardinality(Finite(outcomes))
        /\ loop.starts_success <= req.num_starts
        /\ (pc = "done" /\ est.valid) =>
              /\ est.starts_tried = req.num_starts
              /\ est.starts_success = loop.starts_success
              /\ est.starts_success <= est.starts_tried
              /\ est.rmse_v = loop.best_rmse
              /\ est.theta = loop.best_x
        /\ (pc = "done" /\ loop.starts_success = 0) => ~est.valid

(* Two starts with different finite objectives, the second the lower, and    *)
(* the estimate returned.                                                    *)
C14_Witness ==
    /\ AllStartsProcessed /\ pc = "done" /\ est.valid
    /\ Len(outcomes) = 2
    /\ Finite(outcomes) = {1, 2}
    /\ outcomes[2].fun < outcomes[1].fun
    /\ est.theta = outcomes[2].x
    /\ est.starts_tried = 2 /\ est.starts_success = 2

(* No start ended with a finite objective and the estimator returned None.   *)
C14_WitnessNoSuccess ==
    /\ AllStartsProcessed /\ pc = "done"
    /\ Len(outcomes) = 2
    /\ loop.starts_success = 0
    /\ ~est.valid


(***************************************************************************)
(* The curves on the plot axis.                                             *)
(***************************************************************************)
FwdMapped == fwd.mapped

(* A curve whose points flagged invalid all carry NaN. *)
InvalidIsNaN(curve) ==
    \A i \in DOMAIN curve.mask_valid : ~curve.mask_valid[i] => curve.ocv[i] = NaN

InUnit(x) == 0 <= x /\ x <= One

InWindow(x) == FwdCurve.x_cell_eoc <= x /\ x <= FwdCurve.x_cell_eod

(* C15: on the plot axis a pristine curve is valid exactly at the points of  *)
(* [0, 1]; the degraded cell curve exactly at the points of [x_cell_eoc,     *)
(* x_cell_eod]; a degraded electrode curve only at points of that window     *)
(* whose mapped lithiation is inside the electrode's table support; every    *)
(* invalid point carries NaN; and with no degraded curve the degraded        *)
(* section is {valid: false} beside the same pristine section.               *)
C15_MasksFollowDomains ==
    (fwd # None /\ fwd.valid) =>
        /\ \A k \in {"cell", "pe", "ne"} :
              /\ DOMAIN FwdMapped.pristine[k].mask_valid = DOMAIN fwd.x_plot
              /\ \A i \in DOMAIN fwd.x_plot :
                    FwdMapped.pristine[k].mask_valid[i] <=> InUnit(fwd.x_plot[i])
              /\ InvalidIsNaN(FwdMapped.pristine[k])
        /\ ~FwdCurve.valid => FwdMapped.degraded = [valid |-> FALSE]
        /\ FwdCurve.valid =>
              LET deg == FwdMapped.degraded
              IN  /\ deg.valid
                  /\ \A i \in DOMAIN fwd.x_plot :
                        /\ deg.cell.mask_valid[i] <=> InWindow(fwd.x_plot[i])
                        /\ deg.pe.mask_valid[i] =>
                              /\ deg.cell.mask_valid[i]
                              /\ fwd.pristine.nmc.sol_min <= deg.sol_pe[i]
                              /\ deg.sol_pe[i] <= fwd.pristine.nmc.sol_max
                        /\ deg.ne.mask_valid[i] =>
                              /\ deg.cell.mask_valid[i]
                              /\ fwd.pristine.gra.sol_min <= deg.sol_ne[i]
                              /\ deg.sol_ne[i] <= fwd.pristine.gra.sol_max
                  /\ InvalidIsNaN(deg.cell) /\ InvalidIsNaN(deg.pe) /\ InvalidIsNaN(deg.ne)

(* A padded axis with a degraded curve: a point outside [0, 1], a point      *)
(* outside the window whose lithiation is inside the table, and a point of   *)
(* the window whose lithiation is outside it.                                *)
C15_Witness ==
    /\ fwd # None /\ fwd.valid /\ FwdCurve.valid
    /\ \E i \in DOMAIN fwd.x_plot : ~InUnit(fwd.x_plot[i])
    /\ \E i \in DOMAIN fwd.x_plot :
          /\ ~InWindow(fwd.x_plot[i])
          /\ FLe(fwd.pristine.nmc.sol_min, FwdMapped.degraded.sol_pe[i])
          /\ FLe(FwdMapped.degraded.sol_pe[i], fwd.pristine.nmc.sol_max)
    /\ \E i \in DOMAIN fwd.x_plot :
          /\ FwdMapped.degraded.cell.mask_valid[i]
          /\ ~FwdMapped.degraded.ne.mask_valid[i]

(* No degraded curve, and pristine points both valid and invalid. *)
C15_WitnessAbsent ==
    /\ fwd # None /\ fwd.valid /\ ~FwdCurve.valid
    /\ FwdMapped.degraded = [valid |-> FALSE]
    /\ \E i, j \in DOMAIN fwd.x_plot :
          /\ FwdMapped.pristine.cell.mask_valid[i] /\ isfinite(FwdMapped.pristine.cell.ocv[i])
          /\ ~FwdMapped.pristine.cell.mask_valid[j]


(***************************************************************************)
(* The feasibility of the returned estimate.                                *)
(***************************************************************************)
(* C16: a returned estimate has its theta in the box [0, 1]^3 with           *)
(* LAM_PE < 1 and LAM_NE < 1, and the forward model returns a curve at it;   *)
(* when the forward model returns None at the best start's theta, the        *)
(* estimator returns None and not an estimate.                               *)
C16_EstimateIsFeasible ==
    FitReturned =>
        /\ est.valid =>
              /\ \A c \in 1..3 : 0 <= est.theta[c] /\ est.theta[c] <= One
              /\ est.theta[2] < One /\ est.theta[3] < One
              /\ est.theta \in DOMAIN degraded_at
              /\ degraded_at[est.theta].valid
              /\ calculate_degraded_ocv_raw(req.pristine, est.theta[1], est.theta[2],
                                            est.theta[3], req.n, fsolve_mode).valid
        /\ (LoopEntered /\ loop.best_x # NoX /\ ~degraded_at[loop.best_x].valid) => ~est.valid

(* An estimate at a theta away from the origin, with an RMSE below the       *)
(* penalty.                                                                  *)
C16_Witness ==
    /\ FitReturned /\ est.valid
    /\ est.theta # <<0, 0, 0>>
    /\ est.rmse_v < Penalty

(* Every start ended on the penalty at a theta where the forward model gives *)
(* None: the estimator returned None.                                        *)
C16_WitnessInfeasible ==
    /\ FitReturned /\ LoopEntered
    /\ loop.best_x # NoX
    /\ loop.best_rmse = Penalty
    /\ ~degraded_at[loop.best_x].valid
    /\ ~est.valid

(* An estimate whose RMSE is the penalty, at a theta where the forward model *)
(* returns a curve.                                                          *)
C16_WitnessPenaltyEstimate ==
    /\ FitReturned /\ est.valid
    /\ est.rmse_v = Penalty


(***************************************************************************)
(* The degraded pool.                                                       *)
(***************************************************************************)
(* pool_load under the id of the i-th answered save returns the label,       *)
(* pristine_id and degradation that save wrote.                              *)
LoadsWhatWasSaved(i) ==
    LET ans == PoolLoadAnswer(pool_saved[i].id)
    IN  /\ ans.status = 200
        /\ ans.raw.label = pool_saved[i].payload.label
        /\ ans.raw.pristine_id = pool_saved[i].payload.pristine_id
        /\ ans.raw.degradation = pool_saved[i].payload.degradation

(* C17: under the id each answered save returned, pool_load returns the      *)
(* record that save wrote, whatever saves came after it, and two saves of    *)
(* one clock second have different ids.                                      *)
C17_SavedRecordsKeepTheirIds ==
    /\ \A i \in DOMAIN pool_saved : LoadsWhatWasSaved(i)
    /\ \A i, j \in DOMAIN pool_saved : i # j => pool_saved[i].id # pool_saved[j].id

(* What the pool does keep: a save that is alone in its clock second stays   *)
(* loadable under its id.                                                    *)
C17_SaveAloneInItsSecondIsKept ==
    \A i \in DOMAIN pool_saved :
        (/\ \A j \in DOMAIN pool_saved : j # i => pool_saved[j].ts # pool_saved[i].ts
         /\ \A w \in Workers : pool_req[w].valid => pool_req[w].ts # pool_saved[i].ts)
        => LoadsWhatWasSaved(i)

(* Two saves answered in different seconds, both loadable. *)
C17_WitnessTwoSeconds ==
    /\ Len(pool_saved) = 2
    /\ pool_saved[1].ts # pool_saved[2].ts
    /\ pool_saved[1].payload.label # pool_saved[2].payload.label
    /\ LoadsWhatWasSaved(1) /\ LoadsWhatWasSaved(2)

(* Two saves answered in one second: one file, holding the second record.    *)
C17_WitnessSameSecond ==
    /\ Len(pool_saved) = 2
    /\ pool_saved[1].ts = pool_saved[2].ts
    /\ pool_saved[1].id = pool_saved[2].id
    /\ pool_saved[1].payload.label # pool_saved[2].payload.label
    /\ ~LoadsWhatWasSaved(1)
    /\ LoadsWhatWasSaved(2)
    /\ pool_resp.valid /\ pool_resp.status = 200 /\ "items" \in DOMAIN pool_resp
    /\ Len(pool_resp.items) = 1

=============================================================================
